---- MODULE Spec2Model ----
(***************************************************************************)
(* ClipCommand (clipcommand.py, PySide6 edition): the clipboard change     *)
(* detector (ClipboardWorker), the pipeline executor (_run_chain), the     *)
(* registry (scan_transforms) and the GUI handlers that share state with   *)
(* them.                                                                   *)
(*                                                                         *)
(* Threads.  "main" is the Qt GUI thread: it runs __init__, the button     *)
(* handlers and, in polling mode, _run_chain (clip_changed is emitted by   *)
(* the worker thread and delivered through the GUI thread's event queue).  *)
(* The worker thread runs ClipboardWorker.run.  "hk" is the thread on      *)
(* which the keyboard library invokes _on_hotkey, one callback at a time.  *)
(* pyperclip.paste() may raise where the code catches it.                  *)
(***************************************************************************)
EXTENDS Integers, Sequences, FiniteSets, TLC

\* ---------------------------------------------------------------- bounds
MaxUser == 3     \* actions of the user: copies, clicks, hotkey presses, file edits
MaxRuns == 2     \* pipeline runs that reach a counter (transform_count + error_count)
MaxLines == 2    \* options of one [transform:...] section of transforms.ini
MaxSteps == 2    \* steps a chain declares, where chains are drawn from a set
MaxLog == 3      \* calls of DBLogger.log

\* ------------------------------------------------------------- data model
NoText == "<none>"
UserTexts == {"", "p", "q"}

\* letters, for str.lower() and str.title()
UpperCase == <<"A", "B", "C", "D", "E", "F", "G", "H", "I", "J", "K", "L", "M",
               "N", "O", "P", "Q", "R", "S", "T", "U", "V", "W", "X", "Y", "Z">>
LowerCase == <<"a", "b", "c", "d", "e", "f", "g", "h", "i", "j", "k", "l", "m",
               "n", "o", "p", "q", "r", "s", "t", "u", "v", "w", "x", "y", "z">>
LowerChar(c) ==
    IF \E i \in 1..Len(UpperCase) : UpperCase[i] = c
    THEN LowerCase[CHOOSE i \in 1..Len(UpperCase) : UpperCase[i] = c]
    ELSE c

\* str.lower()
str_lower(str) == [i \in 1..Len(str) |-> LowerChar(str[i])]

UpperChar(c) ==
    IF \E i \in 1..Len(LowerCase) : LowerCase[i] = c
    THEN UpperCase[CHOOSE i \in 1..Len(LowerCase) : LowerCase[i] = c]
    ELSE c

IsLetter(c) == \E i \in 1..Len(UpperCase) : UpperCase[i] = c \/ LowerCase[i] = c

\* the characters of a file name and their code points
FileChars(stem) ==
    CASE stem = "_h"  -> <<"_", "h">>
      [] stem = "a"   -> <<"a">>
      [] stem = "b"   -> <<"b">>
      [] stem = "x_y" -> <<"x", "_", "y">>
      [] stem = "x y" -> <<"x", " ", "y">>
      [] OTHER        -> << >>

CodePoint(c) ==
    CASE c = " " -> 32
      [] c = "_" -> 95
      [] c = "a" -> 97
      [] c = "b" -> 98
      [] c = "h" -> 104
      [] c = "x" -> 120
      [] c = "y" -> 121
      [] OTHER   -> 0

\* the order of two paths of one folder: that of their names, character by
\* character
RECURSIVE CharsLess(_, _)
CharsLess(x, y) ==
    IF y = << >> THEN FALSE
    ELSE IF x = << >> THEN TRUE
    ELSE IF CodePoint(x[1]) # CodePoint(y[1]) THEN CodePoint(x[1]) < CodePoint(y[1])
    ELSE CharsLess(Tail(x), Tail(y))

FileLess(f, g) == CharsLess(FileChars(f), FileChars(g))

\* a variant in which the listing is taken in the order the folder gives it
sorted_AsListed(listing) == listing

\* sorted(...): ascending, by selection of the least remaining element
RECURSIVE sorted(_)
sorted(listing) ==
    IF listing = << >> THEN << >>
    ELSE LET m == CHOOSE i \in 1..Len(listing) :
                      \A j \in 1..Len(listing) : ~FileLess(listing[j], listing[i])
         IN << listing[m] >>
            \o sorted(SubSeq(listing, 1, m - 1) \o SubSeq(listing, m + 1, Len(listing)))

\* p.glob("*.py"): the stems of the folder's *.py files in the order the file
\* system lists them; "_h" is a helper module whose name starts with an
\* underscore
DirListing == <<"b", "_h", "a">>

\* sorted(p.glob("*.py"))
PyFiles == sorted(DirListing)

\* 279: pyfile.name.startswith("_")
StartsWithUnderscore(stem) == stem = "_h"

\* the files a scan loads, in sorted() order
Names == SelectSeq(PyFiles, LAMBDA f : ~StartsWithUnderscore(f))
NameSet == {Names[i] : i \in 1..Len(Names)}
\* what a file holds: 0 = fails to load, otherwise the version of its code
Versions(name) == IF name = "a" THEN 1..2 ELSE 1..1
FileStates(name) == {0} \cup Versions(name)

\* str.replace("_", " ")
replace_underscore(str) == [i \in 1..Len(str) |-> IF str[i] = "_" THEN " " ELSE str[i]]

\* str.title(): a letter that follows no letter is upper-cased, every other
\* letter lower-cased
title(str) ==
    [i \in 1..Len(str) |->
        IF i = 1 \/ ~IsLetter(str[i - 1]) THEN UpperChar(str[i]) ELSE LowerChar(str[i])]

\* pyfile.stem.replace("_", " ").title(), as text
TitleLabel(name) ==
    LET t == title(replace_underscore(FileChars(name)))
    IN CASE t = <<"A">> -> "A"
         [] t = <<"B">> -> "B"
         [] t = <<"X", " ", "Y">> -> "X Y"
         [] OTHER -> "?"

\* f"⚠ {pyfile.stem}"
BrokenLabel(name) ==
    CASE name = "a" -> "!a"
      [] name = "b" -> "!b"
      [] name = "x_y" -> "!x_y"
      [] name = "x y" -> "!x y"
      [] OTHER      -> "!?"

\* the [chain:...] sections of transforms.ini, in file order: c declares a step
\* "x" for which the folder holds no file; d declares only the chain c; e
\* declares the two scripts in the reverse of the folder's order
IniChains == << [name |-> "c", steps |-> <<"a", "x", "b">>],
                [name |-> "d", steps |-> <<"c">>],
                [name |-> "e", steps |-> <<"b", "a">>] >>

\* f"⛓ {name.replace('_', ' ').title()}"
ChainLabel(name) ==
    CASE name = "c" -> "~C"
      [] name = "d" -> "~D"
      [] name = "e" -> "~E"
      [] OTHER      -> "~?"

\* get_chains: a chain entry has no callable (fn is 0 here); its description is
\* the section's, which these sections do not give
get_chains ==
    [i \in 1..Len(IniChains) |->
        [name |-> IniChains[i].name, label |-> ChainLabel(IniChains[i].name),
         description |-> "",
         fn |-> 0, is_chain |-> TRUE, steps |-> IniChains[i].steps]]

\* the sections of an ini file: [chain:<name>] with its steps, or
\* [transform:<name>]
ChainSection(i) == [kind |-> "chain", name |-> IniChains[i].name, steps |-> IniChains[i].steps]
TransformSection(stem) == [kind |-> "transform", name |-> stem, steps |-> << >>]

\* get_chains(cfg) on any ini file: the sections that start with "chain:", in
\* cfg.sections() order
get_chains_cfg(cfg) ==
    LET chains == SelectSeq(cfg, LAMBDA sec : sec.kind = "chain")
    IN [i \in 1..Len(chains) |->
           [name |-> chains[i].name, label |-> ChainLabel(chains[i].name),
            description |-> "",
            fn |-> 0, is_chain |-> TRUE, steps |-> chains[i].steps]]

\* load_transform: the callable of the file, or an exception (0)
load_transform(disk, name) == disk[name]

\* load_transform 262-269: the first line of the module's docstring
ShortDesc(name) == "doc"

\* scan_transforms 296: f"Load error: {exc}"
LoadError(name) == "Load error"

\* scan_transforms: one entry per file, then the chains
ScriptEntry(disk, name) ==
    IF load_transform(disk, name) # 0
    THEN [name |-> name, label |-> TitleLabel(name), description |-> ShortDesc(name),
          fn |-> load_transform(disk, name), is_chain |-> FALSE, steps |-> << >>]
    ELSE [name |-> name, label |-> BrokenLabel(name), description |-> LoadError(name),
          fn |-> 0, is_chain |-> FALSE, steps |-> << >>]

\* a variant in which a file that fails to load gets no entry
scan_transforms_DropFailed(disk) ==
    SelectSeq([i \in 1..Len(Names) |-> ScriptEntry(disk, Names[i])],
              LAMBDA e : e.fn # 0) \o get_chains

scan_transforms(disk) ==
    [i \in 1..Len(Names) |-> ScriptEntry(disk, Names[i])] \o get_chains

\* ----------------------------------------------------- transform callables
\* what a callable returns: a str, a non-str value, or an exception
StrR(x) == [kind |-> "str", s |-> x, n |-> 0]
IntR(k) == [kind |-> "int", s |-> "", n |-> k]
Raised  == [kind |-> "raise", s |-> "", n |-> 0]

\* the behaviour of version ver of script name on input t
Apply(name, ver, t) ==
    CASE name = "a" /\ ver = 1 ->
            (CASE t = "p" -> StrR("q") [] t = "q" -> StrR("p") [] OTHER -> StrR(t))
      [] name = "a" /\ ver = 2 ->
            (CASE t = "" -> StrR("") [] OTHER -> StrR("p"))
      [] name = "b" /\ ver = 1 ->
            (CASE t = "p" -> Raised [] t = "q" -> IntR(7) [] OTHER -> StrR(t))
      [] OTHER -> StrR(t)

\* str(result) of a non-str result
PyStr(k) == IF k = 7 THEN "7" ELSE "0"

\* clipcommand.py 999-1000: if not isinstance(result, str): result = str(result)
Coerce(r) == IF r.kind = "str" THEN r.s ELSE PyStr(r.n)

\* ------------------------------------------------------- rows and registry
Range(sq) == {sq[i] : i \in 1..Len(sq)}

_all_labels(reg) == [i \in 1..Len(reg) |-> reg[i].label]

\* next((... for t in registry if ...), None): the first match, 0 for None
FirstOf(S) == IF S = {} THEN 0 ELSE CHOOSE i \in S : \A j \in S : i <= j

FirstByLabel(reg, label) ==
    FirstOf({i \in 1..Len(reg) : reg[i].label = label})

\* a variant in which a row's label may also select a chain entry
FirstScriptByLabel_AnyKind(reg, label) ==
    FirstOf({i \in 1..Len(reg) : reg[i].label = label})

FirstScriptByLabel(reg, label) ==
    FirstOf({i \in 1..Len(reg) : reg[i].label = label /\ ~reg[i].is_chain})

FirstScriptByName(reg, name) ==
    FirstOf({i \in 1..Len(reg) : reg[i].name = name /\ ~reg[i].is_chain})

\* ChainRow.set_values: keep the current text when it is still offered
set_values(current, values) ==
    IF current \in Range(values) THEN current
    ELSE IF values = << >> THEN "" ELSE values[1]

\* ChainRow.set: setCurrentText of a text the combo does not hold changes nothing
row_set(current, label, values) ==
    IF label \in Range(values) THEN label ELSE current

\* _make_row(label): the text of a new row
_make_row(label, reg) ==
    LET vals  == _all_labels(reg)
        first == set_values("", vals)
    IN IF label # "" THEN row_set(first, label, vals) ELSE first

\* _set_chain_rows(labels)
_set_chain_rows(labels, reg) ==
    IF labels = << >> THEN << _make_row("", reg) >>
    ELSE [i \in 1..Len(labels) |-> _make_row(labels[i], reg)]

\* a variant in which a declared step may also name a chain entry
ChainMatch_AnyKind(reg, step_name) ==
    LET i == FirstOf({j \in 1..Len(reg) : reg[j].name = step_name})
    IN IF i = 0 THEN "" ELSE reg[i].label

\* _load_chain: the labels of the declared steps that name a non-chain entry
ChainMatch(reg, step_name) ==
    LET i == FirstScriptByName(reg, step_name)
    IN IF i = 0 THEN "" ELSE reg[i].label

ChainLabels(reg, steps) ==
    LET m == [i \in 1..Len(steps) |-> ChainMatch(reg, steps[i])]
    IN SelectSeq(m, LAMBDA l : l # "")

_load_chain(chain_entry, rws, reg) ==
    LET labels == ChainLabels(reg, chain_entry.steps)
    IN IF labels # << >> THEN _set_chain_rows(labels, reg) ELSE rws

\* _load_chain 667-670: the declared steps logged as "Chain step ... not found"
ChainNotFound(reg, steps) ==
    SelectSeq(steps, LAMBDA nm : ChainMatch(reg, nm) = "")

\* what one _load_chain call worked out: the chain, the labels it resolved (its
\* local `labels`) and the steps it reported as not found
NoLoad == [chain |-> "", labels |-> << >>, missing |-> << >>]
LoadReport(chain_entry, reg) ==
    [chain |-> chain_entry.name, labels |-> ChainLabels(reg, chain_entry.steps),
     missing |-> ChainNotFound(reg, chain_entry.steps)]

\* _get_all_chains_with_status 678-681
valid_script_names(reg) ==
    {reg[i].name : i \in {j \in 1..Len(reg) : ~reg[j].is_chain /\ reg[j].fn # 0}}

\* _get_all_chains_with_status 686: the missing steps of one chain
MissingSteps(reg, steps) ==
    SelectSeq(steps, LAMBDA nm : nm \notin valid_script_names(reg))

\* _on_row_changed: a chain selected in the first row replaces the rows
_on_row_changed(rws, reg) ==
    IF rws = << >> THEN rws
    ELSE LET i == FirstByLabel(reg, rws[1])
         IN IF i # 0 /\ reg[i].is_chain THEN _load_chain(reg[i], rws, reg) ELSE rws

\* the _load_chain call _on_row_changed makes, if it makes one
RowChangeLoad(rws, reg) ==
    IF rws = << >> THEN NoLoad
    ELSE LET i == FirstByLabel(reg, rws[1])
         IN IF i # 0 /\ reg[i].is_chain THEN LoadReport(reg[i], reg) ELSE NoLoad

\* _get_active_steps: the registry entries (by position) the rows select
_get_active_steps(rws, reg) ==
    LET pick == [r \in 1..Len(rws) |-> FirstScriptByLabel(reg, rws[r])]
    IN SelectSeq(pick, LAMBDA i : i # 0)

\* _refresh_transforms 821-838: the rows after a scan
RefreshRows(rws, reg) ==
    IF rws = << >> THEN << _make_row("", reg) >>
    ELSE [r \in 1..Len(rws) |-> set_values(rws[r], _all_labels(reg))]


\* ------------------------------------------- configuration overrides
\* Names of options and of module attributes, and the values of options, are
\* strings of characters (sequences of one-character strings).
Digits == <<"0", "1", "2", "3", "4", "5", "6", "7", "8", "9">>

\* load_ini 208: configparser.ConfigParser() keeps its default optionxform,
\* which returns optionstr.lower()
optionxform(optionstr) == str_lower(optionstr)

\* the values of Python the overrides and the module attributes take
NoValue == [ty |-> "none", s |-> << >>, n |-> 0, d |-> 0]
StrV(str) == [ty |-> "str", s |-> str, n |-> 0, d |-> 0]
IntV(k) == [ty |-> "int", s |-> << >>, n |-> k, d |-> 0]
\* a finite float: the integer its digits spell and the number of digits after
\* the point; nan and inf by name
FloatV(k, frac) == [ty |-> "float", s |-> << >>, n |-> k, d |-> frac]
FloatNamed(str) == [ty |-> "float", s |-> str, n |-> 0, d |-> 0]

IsDigit(c) == \E i \in 1..Len(Digits) : Digits[i] = c
DigitVal(c) == (CHOOSE i \in 1..Len(Digits) : Digits[i] = c) - 1

RECURSIVE DigitsVal(_)
DigitsVal(str) ==
    IF str = << >> THEN 0
    ELSE DigitsVal(SubSeq(str, 1, Len(str) - 1)) * 10 + DigitVal(str[Len(str)])

\* int(value) succeeds: on the strings of this model (letters, digits and the
\* point, already stripped by configparser) a non-empty string of digits
IntLiteral(str) == str # << >> /\ \A i \in 1..Len(str) : IsDigit(str[i])

\* float(value) succeeds: digits with at most one point and at least one digit,
\* or one of the names float() knows
FloatLiteral(str) ==
    \/ str_lower(str) \in { <<"n", "a", "n">>, <<"i", "n", "f">>,
                            <<"i", "n", "f", "i", "n", "i", "t", "y">> }
    \/ /\ \A i \in 1..Len(str) : IsDigit(str[i]) \/ str[i] = "."
       /\ Cardinality({i \in 1..Len(str) : str[i] = "."}) <= 1
       /\ \E i \in 1..Len(str) : IsDigit(str[i])

FloatOf(str) ==
    IF \E i \in 1..Len(str) : ~(IsDigit(str[i]) \/ str[i] = ".")
    THEN FloatNamed(str_lower(str))
    ELSE LET dots == {i \in 1..Len(str) : str[i] = "."}
             frac == IF dots = {} THEN 0 ELSE Len(str) - (CHOOSE i \in dots : TRUE)
         IN FloatV(DigitsVal(SelectSeq(str, IsDigit)), frac)

\* a variant in which float is tried before int
CastValue_FloatFirst(value) ==
    IF FloatLiteral(value) THEN FloatOf(value)
    ELSE IF IntLiteral(value) THEN IntV(DigitsVal(value))
    ELSE StrV(value)

\* load_transform 255-260: for cast in (int, float): the first that succeeds
CastValue(value) ==
    IF IntLiteral(value) THEN IntV(DigitsVal(value))
    ELSE IF FloatLiteral(value) THEN FloatOf(value)
    ELSE StrV(value)

\* setattr(module, key, value)
setattr(ns, key, value) ==
    [nm \in (DOMAIN ns) \cup {key} |-> IF nm = key THEN value ELSE ns[nm]]

\* the plugins whose documented overrides are modelled, and their top-level
\* variables after exec_module
Plugins == {"word_from_csv_active", "ascii_art_transform"}

BOOKMARK == <<"B", "O", "O", "K", "M", "A", "R", "K">>
HEADING_ROWS == <<"H", "E", "A", "D", "I", "N", "G", "_", "R", "O", "W", "S">>
STYLE == <<"S", "T", "Y", "L", "E">>
CHAR_SPACING == <<"C", "H", "A", "R", "_", "S", "P", "A", "C", "I", "N", "G">>

ModuleDefaults(plugin) ==
    IF plugin = "word_from_csv_active"
    THEN (BOOKMARK :> StrV(<<"b", "k", "1">>)) @@ (HEADING_ROWS :> IntV(1))
    ELSE (STYLE :> StrV(<<"r", "e", "t", "r", "o">>)) @@ (CHAR_SPACING :> IntV(1))

\* the global the plugin's transform reads to choose the bookmark / the font
ReadsVar(plugin) == IF plugin = "word_from_csv_active" THEN BOOKMARK ELSE STYLE

\* the lines a [transform:<plugin>] section may hold: the option as spelt in the
\* file and its value
IniKeys == { <<"b", "o", "o", "k", "m", "a", "r", "k">>, BOOKMARK,
             <<"s", "t", "y", "l", "e">>, STYLE }
IniValues == { <<"b", "k", "2">>, <<"b", "a", "n", "n", "e", "r">>, <<"7">>,
               <<"7", ".", "5">>, <<"s", "e", "v", "e", "n">>, <<"t", "r", "u", "e">> }
IniLines == [key : IniKeys, value : IniValues]

\* the sections configparser reads without DuplicateOptionError
IniSections ==
    {sec \in UNION {[1..n -> IniLines] : n \in 0..MaxLines} :
        \A i, j \in 1..Len(sec) :
            i # j => optionxform(sec[i].key) # optionxform(sec[j].key)}

\* get_transform_overrides: dict(cfg[section]), in file order, or {}
get_transform_overrides(section) ==
    [i \in 1..Len(section) |->
        [key |-> optionxform(section[i].key), value |-> section[i].value]]

\* one load_transform call on its own: the section of the ini file, the
\* overrides read from it, the module's namespace, the position of the
\* override loop, and what the transform then reads
NoLd == [stage |-> "off", plugin |-> "", section |-> << >>, overrides |-> << >>,
         ns |-> << >>, k |-> 0, read |-> NoValue]

\* ------------------------------------------------------ scan_transforms alone
\* the orders in which the file system may list the folder, and in which the
\* ini file may hold its sections
Orders(S) ==
    {f \in [1..Cardinality(S) -> S] : \A i, j \in 1..Cardinality(S) : i # j => f[i] # f[j]}
DirListings == Orders(Range(DirListing))
IniFiles == Orders({ChainSection(i) : i \in 1..Len(IniChains)} \cup {TransformSection("a")})

\* one scan_transforms call on its own: whether the folder is a directory, the
\* listing glob gave, the ini file, the sorted listing, the loop position and
\* `results`
NoScan == [stage |-> "off", is_dir |-> TRUE, listing |-> << >>, cfg |-> << >>,
           files |-> << >>, k |-> 0, results |-> << >>]

\* ---------------------------------------------------------- _load_chain alone
\* the file names a folder may hold: "x_y" and "x y" get the same label
Stems == {"a", "b", "x_y", "x y"}

\* the folders: which files there are and which of them load (1) or fail (0)
Folders == UNION {[F -> {0, 1}] : F \in (SUBSET Stems) \ {{}}}

\* an order in which the file system lists the files of S
RECURSIVE Listing(_)
Listing(S) ==
    IF S = {} THEN << >>
    ELSE LET f == CHOOSE x \in S : TRUE IN << f >> \o Listing(S \ {f})

\* the step lists a chain may declare over the scripts of S
StepLists(S) == UNION {[1..n -> S] : n \in 1..MaxSteps}

\* scan_transforms on a folder with the ini file cfg
scan_folder(folder, cfg) ==
    LET files == SelectSeq(sorted(Listing(DOMAIN folder)),
                           LAMBDA f : ~StartsWithUnderscore(f))
    IN [i \in 1..Len(files) |-> ScriptEntry(folder, files[i])] \o get_chains_cfg(cfg)

\* one chain load on its own: the folder, the steps the chain declares, the
\* registry, the rows and what _get_active_steps returns
NoChainLoad == [stage |-> "off", folder |-> << >>, decl |-> << >>, reg |-> << >>,
                rows |-> << >>, active |-> << >>]

\* ------------------------------------------------------------- DBLogger alone
\* what the queue holds in place of an entry to make the writer leave
NoneItem == [n |-> 0, tag |-> "None"]

\* the tags of the entries that are logged
LogTags == {"info", "err"}

\* DBLogger after __init__ has started the writer thread: the queue, the stop
\* event, the rows of log_entries in insertion order, the entries passed to
\* log() so far, where the caller is (open: may log or stop; stop_put, join:
\* inside stop(); stopped: stop() has returned), where the writer thread is and
\* the writer's local `item`
DbStarted == [queue |-> << >>, stop_evt |-> FALSE, rows |-> << >>, logged |-> << >>,
              caller |-> "open", writer |-> "test", item |-> NoneItem]
NoDb == [DbStarted EXCEPT !.caller = "off", !.writer = "off"]

\* ------------------------------------------------------------------ state
Threads == {"main", "hk"}

VARIABLES
    hotkey,           \* self.hotkey is set (--hotkey given and not yet cleared)
    kbAvail,          \* KEYBOARD_AVAILABLE
    hasWorker,        \* hasattr(self, '_worker'): the poll thread was started
    hkReg,            \* keyboard.add_hotkey was called
    running,          \* self.running
    dry_run,          \* self.dry_run
    transform_count,  \* self.transform_count
    error_count,      \* self.error_count
    disk,             \* the script files: name -> file state
    registry,         \* self._registry
    rows,             \* the combo text of each ChainRow of self._rows
    clip,             \* the system clipboard: text and who put it there
    preview,          \* the preview pane
    wLast,            \* ClipboardWorker._last
    wActive,          \* ClipboardWorker._active
    wRunning,         \* ClipboardWorker._running
    wpc,              \* where ClipboardWorker.run is
    wcur,             \* the worker's local: current
    queue,            \* clip_changed emissions not yet delivered to the GUI thread
    hkPending,        \* hotkey presses not yet handled by the keyboard thread
    pc,               \* where the GUI thread and the keyboard thread are
    run,              \* the _run_chain activation of each thread (locals and trace)
    mtmp,             \* the GUI thread's local: the value reseed() read
    rl,               \* _reload_all's locals: the steps, the loop position, `reloaded`,
                      \* and the steps it logged as failed
    nUser,            \* user actions so far
    prevPoll,         \* history: what the last completed poll read; NoText once
                      \* another thread has written _last since
    lc,               \* what the latest GUI handler's _load_chain call worked out
    seeded,           \* history: the text the latest reseed() recorded, while the
                      \* clipboard has not been written since; NoText otherwise
    pollSeed,         \* history: the value of seeded when the poll in progress read
                      \* the clipboard
    ld,               \* a load_transform call followed on its own (NoLd otherwise)
    sc,               \* a scan_transforms call followed on its own (NoScan otherwise)
    cl,               \* a chain load followed on its own (NoChainLoad otherwise)
    dbl               \* a DBLogger followed on its own (NoDb otherwise)

vars == << hotkey, kbAvail, hasWorker, hkReg, running, dry_run, transform_count,
           error_count, disk, registry, rows, clip, preview, wLast, wActive, wRunning, wpc,
           wcur, queue, hkPending, pc, run, mtmp, rl, nUser, prevPoll, seeded,
           pollSeed, lc, ld, sc, cl, dbl >>

Clip(text, src) == [text |-> text, src |-> src]

\* the value of a local variable that is no longer live
DeadLocal == Clip("", "user")

\* A _run_chain activation.  steps are positions of the registry the run read;
\* ents are the entry dicts the local list `steps` refers to.  While alias holds
\* they are the very dicts of self._registry (a write to one is seen by the run);
\* a rescan builds new dicts, after which the run holds the only reference.
\* src, fns0, calls, sink, out, updLast, counted, failAt record where the input
\* came from and what the run did.
NoRun == [status |-> "none", input |-> "", src |-> "user", steps |-> << >>, ents |-> << >>,
          alias |-> FALSE, fns0 |-> << >>, i |-> 0, cur |-> "", calls |-> << >>,
          trace |-> << >>, sink |-> "none", out |-> "", updLast |-> FALSE,
          counted |-> FALSE, failAt |-> 0]

NoReload == [steps |-> << >>, i |-> 0, failed |-> << >>, reloaded |-> 0]

InFlight(t) == pc[t] \in {"run_step", "run_sink", "run_finish"}

\* one _log call: what kind of message, its tag, the step name and the position
\* the message text carries ("" and 0 when the text carries none), and the loop
\* iteration that made the call (0 outside the loop)
LogEntry(kind, tag, name, pos, at) ==
    [kind |-> kind, tag |-> tag, name |-> name, pos |-> pos, at |-> at]

\* the state when ClipCommandWindow.__init__ reaches _build_ui (418-440)
InitWindow ==
    /\ hotkey \in BOOLEAN
    /\ kbAvail \in BOOLEAN
    /\ (~hotkey => kbAvail)
    /\ hasWorker = FALSE
    /\ hkReg = FALSE
    /\ running = FALSE
    /\ dry_run = FALSE
    /\ transform_count = 0
    /\ error_count = 0
    /\ disk \in {d \in [NameSet -> {0, 1}] : d["a"] = 1}
    /\ registry = << >>
    /\ rows = << >>
    /\ clip \in {Clip(t, "user") : t \in {"", "p"}}
    /\ preview = ""
    /\ wLast = ""
    /\ wActive = TRUE
    /\ wRunning = TRUE
    /\ wpc = "off"
    /\ wcur = DeadLocal
    /\ queue = << >>
    /\ hkPending = 0
    /\ pc = [t \in Threads |-> IF t = "main" THEN "init_refresh" ELSE "idle"]
    /\ run = [t \in Threads |-> NoRun]
    /\ mtmp = ""
    /\ rl = NoReload
    /\ nUser = 0
    /\ prevPoll = NoText
    /\ seeded = NoText
    /\ pollSeed = NoText
    /\ lc = NoLoad

Init == InitWindow /\ ld = NoLd /\ sc = NoScan /\ cl = NoChainLoad /\ dbl = NoDb

modeVars   == << hotkey, kbAvail, hasWorker, hkReg >>
cntVars    == << transform_count, error_count >>

SetRun(t, r) == run' = [run EXCEPT ![t] = r]
Goto(t, where) == pc' = [pc EXCEPT ![t] = where]

\* ---------------------------------------------------------------- startup
\* _refresh_transforms 806-842: scan, refresh the rows, re-seed the detector if
\* there is one.  The entries of the new registry are new dicts.
RefreshTransforms(next) ==
    /\ registry' = scan_transforms(disk)
    /\ rows' = RefreshRows(rows, scan_transforms(disk))
    /\ run' = [t \in Threads |-> IF t = "main" THEN NoRun
                                   ELSE [run[t] EXCEPT !.alias = FALSE]]
    /\ Goto("main", IF hasWorker THEN "reseed_paste" ELSE next)

\* __init__ 441: self._refresh_transforms(preselect=None)
StartupRefresh ==
    /\ pc["main"] = "init_refresh"
    /\ RefreshTransforms("init_polling")
    /\ UNCHANGED << modeVars, running, dry_run, cntVars, disk, clip, preview, wLast,
                    wActive, wpc, wcur, queue, hkPending, mtmp, rl, nUser, prevPoll,
                    seeded, pollSeed, wRunning, lc, ld, sc, cl, dbl >>

\* a variant in which the worker is started in hotkey mode too
StartsWorker_Always(hk) == TRUE

\* _start_polling 1052: the worker is created only without a hotkey
StartsWorker(hk) == ~hk

\* _start_polling 1042-1060
StartPolling ==
    /\ pc["main"] = "init_polling"
    /\ running' = TRUE
    /\ hasWorker' = StartsWorker(hotkey)
    /\ wpc' = IF StartsWorker(hotkey) THEN "w_reseed" ELSE wpc
    /\ Goto("main", "init_hotkey")
    /\ UNCHANGED << hotkey, kbAvail, hkReg, dry_run, cntVars, disk, registry, rows,
                    clip, preview, wLast, wActive, wcur, queue, hkPending, run, mtmp,
                    rl, nUser, prevPoll, seeded, pollSeed, wRunning, lc, ld, sc, cl,
                    dbl >>

\* a variant in which the hotkey is registered whenever the library is there
RegistersHotkey_Always(hk, avail) == avail

\* _register_hotkey 1065-1070: only with a hotkey, and with the keyboard library
RegistersHotkey(hk, avail) == hk /\ avail

\* _register_hotkey 1064-1083
RegisterHotkey ==
    /\ pc["main"] = "init_hotkey"
    /\ hotkey' = (hotkey /\ kbAvail)
    /\ hkReg' = RegistersHotkey(hotkey, kbAvail)
    /\ Goto("main", "idle")
    /\ UNCHANGED << kbAvail, hasWorker, running, dry_run, cntVars, disk, registry,
                    rows, clip, preview, wLast, wActive, wpc, wcur, queue, hkPending,
                    run, mtmp, rl, nUser, prevPoll, seeded, pollSeed, wRunning, lc, ld,
                    sc, cl, dbl >>

\* ------------------------------------------------- ClipboardWorker (thread)
\* ClipboardWorker.run 329 -> reseed 318: pyperclip.paste() returns or raises
WReseed ==
    /\ wpc = "w_reseed"
    /\ \/ wcur' = clip /\ wpc' = "w_reseed_set"
       \/ wcur' = wcur /\ wpc' = "w_loop"
    /\ UNCHANGED << modeVars, running, dry_run, cntVars, disk, registry, rows, clip,
                    preview, wLast, wActive, queue, hkPending, pc, run, mtmp, rl,
                    nUser, prevPoll, seeded, pollSeed, wRunning, lc, ld, sc, cl, dbl >>

\* reseed 318: self._last = <the value read>
WReseedSet ==
    /\ wpc = "w_reseed_set"
    /\ wLast' = wcur.text
    /\ seeded' = IF clip = wcur THEN wcur.text ELSE NoText
    /\ wcur' = DeadLocal
    /\ prevPoll' = NoText
    /\ wpc' = "w_loop"
    /\ UNCHANGED << modeVars, running, dry_run, cntVars, disk, registry, rows, clip,
                    preview, wActive, queue, hkPending, pc, run, mtmp, rl, nUser,
                    pollSeed, wRunning, lc, ld, sc, cl, dbl >>

\* a variant in which the loop does not look at _running
LoopContinues_Always(r) == TRUE

\* run 330: while self._running
LoopContinues(r) == r

\* run 330: the loop test; when it fails run() returns
WLoop ==
    /\ wpc = "w_loop"
    /\ wpc' = IF LoopContinues(wRunning) THEN "w_body" ELSE "done"
    /\ UNCHANGED << modeVars, running, dry_run, cntVars, disk, registry, rows, clip,
                    preview, wLast, wActive, wRunning, wcur, queue, hkPending, pc, run,
                    mtmp, rl, nUser, prevPoll, seeded, pollSeed, lc, ld, sc, cl, dbl >>

\* run 331: a poll is made only while the detector is active
PollsWhen(active) == active

\* run 331-333, 337-339: if self._active: current = pyperclip.paste() (which may
\* raise); otherwise time.sleep and the next iteration
WPoll ==
    /\ wpc = "w_body"
    /\ \/ PollsWhen(wActive) /\ wcur' = clip /\ wpc' = "w_cmp" /\ pollSeed' = seeded
       \/ PollsWhen(wActive) /\ wcur' = wcur /\ wpc' = "w_loop" /\ pollSeed' = pollSeed
       \/ ~PollsWhen(wActive) /\ wcur' = wcur /\ wpc' = "w_loop" /\ pollSeed' = pollSeed
    /\ UNCHANGED << modeVars, running, dry_run, cntVars, disk, registry, rows, clip,
                    preview, wLast, wActive, queue, hkPending, pc, run, mtmp, rl,
                    nUser, prevPoll, seeded, wRunning, lc, ld, sc, cl, dbl >>

\* a variant in which any text that differs from the baseline triggers
PollTriggers_AnyChange(current, last) == current # last

\* run 334: if current and current != self._last
PollTriggers(current, last) == current # "" /\ current # last

WCompare ==
    /\ wpc = "w_cmp"
    /\ wpc' = IF PollTriggers(wcur.text, wLast) THEN "w_emit" ELSE "w_loop"
    /\ wcur' = IF PollTriggers(wcur.text, wLast) THEN wcur ELSE DeadLocal
    /\ prevPoll' = IF PollTriggers(wcur.text, wLast) THEN prevPoll ELSE wcur.text
    /\ pollSeed' = IF PollTriggers(wcur.text, wLast) THEN pollSeed ELSE NoText
    /\ UNCHANGED << modeVars, running, dry_run, cntVars, disk, registry, rows, clip,
                    preview, wLast, wActive, queue, hkPending, pc, run, mtmp, rl,
                    nUser, seeded, wRunning, lc, ld, sc, cl, dbl >>

\* a variant in which an emitting poll leaves the baseline as it was
PollBaseline_Stale(current, last) == last

\* run 335: self._last = current
PollBaseline(current, last) == current

\* run 335-336: self._last = current; self.clip_changed.emit(current).  The
\* emission is queued to the GUI thread, where the connected lambda runs.
WEmit ==
    /\ wpc = "w_emit"
    /\ wLast' = PollBaseline(wcur.text, wLast)
    /\ queue' = Append(queue, wcur)
    /\ prevPoll' = wcur.text
    /\ pollSeed' = NoText
    /\ wcur' = DeadLocal
    /\ wpc' = "w_loop"
    /\ UNCHANGED << modeVars, running, dry_run, cntVars, disk, registry, rows, clip,
                    preview, wActive, hkPending, pc, run, mtmp, rl, nUser, seeded,
                    wRunning, lc, ld, sc, cl, dbl >>

\* ------------------------------------------------------ _run_chain (970-1031)
\* 972: if not steps
NoSteps(steps) == steps = << >>

\* a variant in which a run without steps goes on to the sink
AfterEmpty_Sink(clip_text) == "run_sink"

\* 973-974: the warning, then return
AfterEmpty(clip_text) == "idle"

\* 971-982: the active steps are read once; an empty list ends the run with a
\* warning; otherwise the "▶" entry is logged and the loop starts
RunBegin(t, clip_text, src) ==
    LET steps == _get_active_steps(rows, registry)
        start == IF Len(steps) > 1
                 THEN LogEntry("start", "chain", "", 0, 0)
                 ELSE LogEntry("start", "info", registry[steps[1]].name, 0, 0)
    IN IF NoSteps(steps)
       THEN /\ SetRun(t, [NoRun EXCEPT !.status = "empty", !.input = clip_text, !.src = src,
                             !.trace = << LogEntry("nosteps", "warn", "", 0, 0) >>])
            /\ Goto(t, AfterEmpty(clip_text))
       ELSE /\ SetRun(t, [NoRun EXCEPT !.status = "running", !.input = clip_text, !.src = src,
                             !.steps = steps, !.alias = TRUE,
                             !.ents = [k \in 1..Len(steps) |-> registry[steps[k]]],
                             !.fns0 = [k \in 1..Len(steps) |-> registry[steps[k]].fn],
                             !.cur = clip_text,
                             !.trace = << start >>])
            /\ Goto(t, "run_step")

\* 986: if step["fn"] is None
StepUnavailable(fn) == fn = 0

\* a variant in which every step is called with the run's original input
StepInput_Original(clip_text, current) == clip_text

\* 984, 998, 1006: the text a step is called with is the previous step's output
StepInput(clip_text, current) == current

\* 994-995: the entries logged before the call
StepHead(k, name, n) ==
    (IF n > 1 THEN << LogEntry("step", "chain", name, k, k) >> ELSE << >>)
    \o << LogEntry("in", "preview", "", 0, k) >>

\* 987: "✗ Step {i+1} [{name}] has no function (load error)"
NoFnEntry(k, name) == LogEntry("nofn", "err", name, k, k)

\* 1008-1009: "✗ Error in [{name}]: {exc}", then the traceback
RaisedEntries(k, name) ==
    << LogEntry("error", "err", name, 0, k), LogEntry("traceback", "err", "", 0, k) >>

\* a variant in which a failed step does not end the run
AfterFailure_Continue(k, n) == IF k = n THEN "run_sink" ELSE "run_step"

\* 990, 1013: return
AfterFailure(k, n) == "idle"

\* 985-1013: one iteration of the step loop
RunStep(t) ==
    /\ pc[t] = "run_step"
    /\ LET r    == run[t]
           k    == r.i + 1
           n    == Len(r.steps)
           e    == r.ents[k]
           arg  == StepInput(r.input, r.cur)
           res  == Apply(e.name, e.fn, arg)
           call == [name |-> e.name, fn |-> e.fn, arg |-> arg]
       IN IF StepUnavailable(e.fn)
          THEN /\ SetRun(t, [r EXCEPT !.status = "failed", !.failAt = k,
                                !.trace = Append(r.trace, NoFnEntry(k, e.name))])
               /\ error_count' = error_count + 1
               /\ Goto(t, AfterFailure(k, n))
          ELSE IF res.kind = "raise"
          THEN /\ SetRun(t, [r EXCEPT !.status = "failed", !.failAt = k,
                                !.calls = Append(r.calls, call),
                                !.trace = r.trace \o StepHead(k, e.name, n)
                                                  \o RaisedEntries(k, e.name)])
               /\ error_count' = error_count + 1
               /\ Goto(t, AfterFailure(k, n))
          ELSE /\ SetRun(t, [r EXCEPT !.i = k, !.cur = Coerce(res),
                                !.calls = Append(r.calls, call),
                                !.trace = r.trace \o StepHead(k, e.name, n)
                                          \o << LogEntry("out", "ok", "", 0, k) >>])
               /\ error_count' = error_count
               /\ Goto(t, IF k = n THEN "run_sink" ELSE "run_step")
    /\ UNCHANGED << modeVars, running, dry_run, transform_count, disk, registry, rows,
                    clip, preview, wLast, wActive, wpc, wcur, queue, hkPending, mtmp,
                    rl, nUser, prevPoll, seeded, pollSeed, wRunning, lc, ld, sc, cl,
                    dbl >>

\* a variant in which the result always goes to the clipboard
SinkIsPreview_Never(dry) == FALSE

\* 1015: if self.dry_run
SinkIsPreview(dry) == dry

\* 1030-1031 (after 1016-1020 or 1025-1028): the run is counted
Counted(r) == [r EXCEPT !.status = "done", !.counted = TRUE]

\* 1015-1022: the result goes to the preview pane (dry run, which then ends the
\* run) or to the clipboard; pyperclip.copy may raise, which ends the run there
RunSink(t) ==
    /\ pc[t] = "run_sink"
    /\ \/ /\ SinkIsPreview(dry_run)
          /\ preview' = run[t].cur
          /\ clip' = clip
          /\ seeded' = seeded
          /\ SetRun(t, Counted([run[t] EXCEPT !.sink = "preview", !.out = run[t].cur,
                           !.trace = Append(run[t].trace, LogEntry("dry", "warn", "", 0, 0))]))
          /\ transform_count' = transform_count + 1
          /\ Goto(t, "idle")
       \/ /\ ~SinkIsPreview(dry_run)
          /\ clip' = Clip(run[t].cur, "run")
          /\ seeded' = NoText
          /\ preview' = preview
          /\ SetRun(t, [run[t] EXCEPT !.sink = "clip", !.out = run[t].cur])
          /\ transform_count' = transform_count
          /\ Goto(t, "run_finish")
       \/ /\ ~SinkIsPreview(dry_run)
          /\ UNCHANGED << clip, preview, transform_count, seeded >>
          /\ SetRun(t, [run[t] EXCEPT !.status = "crashed"])
          /\ Goto(t, "idle")
    /\ UNCHANGED << modeVars, running, dry_run, error_count, disk, registry, rows,
                    wLast, wActive, wpc, wcur, queue, hkPending, mtmp, rl, nUser,
                    prevPoll, pollSeed, wRunning, lc, ld, sc, cl, dbl >>

\* 1023-1031: update_last(current) if there is a worker, the "✓" entry, the count
RunFinish(t) ==
    /\ pc[t] = "run_finish"
    /\ IF hasWorker
       THEN wLast' = run[t].cur /\ prevPoll' = NoText
       ELSE UNCHANGED << wLast, prevPoll >>
    /\ SetRun(t, Counted([run[t] EXCEPT !.updLast = hasWorker,
                     !.trace = Append(run[t].trace, LogEntry("written", "ok", "", 0, 0))]))
    /\ transform_count' = transform_count + 1
    /\ Goto(t, "idle")
    /\ UNCHANGED << modeVars, running, dry_run, error_count, disk, registry, rows,
                    clip, preview, wActive, wpc, wcur, queue, hkPending, mtmp, rl,
                    nUser, seeded, pollSeed, wRunning, lc, ld, sc, cl, dbl >>

\* ------------------------------------------------------ trigger deliveries
CanRun == transform_count + error_count < MaxRuns

\* _start_polling 1056-1058: the GUI thread's event loop delivers one queued
\* clip_changed to the lambda, which calls _run_chain(text)
DeliverClipChanged ==
    /\ pc["main"] = "idle"
    /\ queue # << >>
    /\ CanRun
    /\ queue' = Tail(queue)
    /\ RunBegin("main", Head(queue).text, Head(queue).src)
    /\ UNCHANGED << modeVars, running, dry_run, cntVars, disk, registry, rows, clip,
                    preview, wLast, wActive, wpc, wcur, hkPending, mtmp, rl, nUser,
                    prevPoll, seeded, pollSeed, wRunning, lc, ld, sc, cl, dbl >>

\* the user presses the registered hotkey
PressHotkey ==
    /\ hkReg
    /\ nUser < MaxUser
    /\ hkPending' = hkPending + 1
    /\ nUser' = nUser + 1
    /\ UNCHANGED << modeVars, running, dry_run, cntVars, disk, registry, rows, clip,
                    preview, wLast, wActive, wpc, wcur, queue, pc, run, mtmp, rl,
                    prevPoll, seeded, pollSeed, wRunning, lc, ld, sc, cl, dbl >>

\* _on_hotkey 1072-1080 on the keyboard thread: paste (which may raise), then
\* _run_chain if the clipboard is not empty
OnHotkey ==
    /\ pc["hk"] = "idle"
    /\ hkPending > 0
    /\ CanRun
    /\ hkPending' = hkPending - 1
    /\ \/ /\ clip.text # ""
          /\ RunBegin("hk", clip.text, clip.src)
       \/ /\ clip.text = ""
          /\ SetRun("hk", NoRun)
          /\ UNCHANGED pc
       \/ /\ SetRun("hk", NoRun)
          /\ UNCHANGED pc
    /\ UNCHANGED << modeVars, running, dry_run, cntVars, disk, registry, rows, clip,
                    preview, wLast, wActive, wpc, wcur, queue, mtmp, rl, nUser,
                    prevPoll, seeded, pollSeed, wRunning, lc, ld, sc, cl, dbl >>

\* ------------------------------------------------- GUI handlers (GUI thread)
CanClick == pc["main"] = "idle" /\ nUser < MaxUser

\* the locals of a _run_chain call that has returned are gone when the GUI
\* thread runs its next handler
DropFrame == run' = [run EXCEPT !["main"] = NoRun]

\* _toggle 1087-1097: flip running, tell the worker, re-seed on resume
Toggle ==
    /\ CanClick
    /\ running' = ~running
    /\ wActive' = IF hasWorker THEN ~running ELSE wActive
    /\ Goto("main", IF ~running /\ hasWorker THEN "reseed_paste" ELSE "idle")
    /\ DropFrame
    /\ lc' = NoLoad
    /\ nUser' = nUser + 1
    /\ UNCHANGED << modeVars, dry_run, cntVars, disk, registry, rows, clip, preview,
                    wLast, wpc, wcur, queue, hkPending, mtmp, rl, prevPoll, seeded,
                    pollSeed, wRunning, ld, sc, cl, dbl >>

\* _reseed_clipboard -> reseed 318: pyperclip.paste() returns or raises
MainReseedPaste ==
    /\ pc["main"] = "reseed_paste"
    /\ \/ mtmp' = clip.text /\ Goto("main", "reseed_set")
       \/ mtmp' = mtmp /\ Goto("main", "idle")
    /\ UNCHANGED << modeVars, running, dry_run, cntVars, disk, registry, rows, clip,
                    preview, wLast, wActive, wpc, wcur, queue, hkPending, run, rl,
                    nUser, prevPoll, seeded, pollSeed, wRunning, lc, ld, sc, cl, dbl >>

\* reseed 318: self._last = <the value read>
MainReseedSet ==
    /\ pc["main"] = "reseed_set"
    /\ wLast' = mtmp
    /\ seeded' = IF clip.text = mtmp THEN mtmp ELSE NoText
    /\ mtmp' = ""
    /\ prevPoll' = NoText
    /\ Goto("main", "idle")
    /\ UNCHANGED << modeVars, running, dry_run, cntVars, disk, registry, rows, clip,
                    preview, wActive, wpc, wcur, queue, hkPending, run, rl, nUser,
                    pollSeed, wRunning, lc, ld, sc, cl, dbl >>

\* the Rescan button: _refresh_transforms()
Rescan ==
    /\ CanClick
    /\ RefreshTransforms("idle")
    /\ lc' = NoLoad
    /\ nUser' = nUser + 1
    /\ UNCHANGED << modeVars, running, dry_run, cntVars, disk, clip, preview, wLast,
                    wActive, wpc, wcur, queue, hkPending, mtmp, rl, prevPoll, seeded,
                    pollSeed, wRunning, ld, sc, cl, dbl >>

\* _reload_all 857-859: the loop runs over the active steps
ReloadBegin ==
    /\ CanClick
    /\ rl' = [NoReload EXCEPT !.steps = _get_active_steps(rows, registry)]
    /\ Goto("main", "reload")
    /\ DropFrame
    /\ lc' = NoLoad
    /\ nUser' = nUser + 1
    /\ UNCHANGED << modeVars, running, dry_run, cntVars, disk, registry, rows, clip,
                    preview, wLast, wActive, wpc, wcur, queue, hkPending, mtmp,
                    prevPoll, seeded, pollSeed, wRunning, ld, sc, cl, dbl >>

\* a variant in which a failed load clears the callable
ReloadedFn_Clear(old, loaded) == loaded

\* 866-867: "Reload failed [{name}]: {exc}" is logged for a failed load
ReloadFailures(failed, loaded, name) == IF loaded # 0 THEN failed ELSE Append(failed, name)

\* 865: reloaded += 1, on a successful load
ReloadedCount(n, loaded) == IF loaded # 0 THEN n + 1 ELSE n

\* 860-867: step["fn"] = fn on a successful load; a failed load is only logged
ReloadedFn(old, loaded) == IF loaded # 0 THEN loaded ELSE old

\* 864: step["description"] = desc, on a successful load
ReloadedDesc(old, loaded, name) == IF loaded # 0 THEN ShortDesc(name) ELSE old

\* a run that still holds the registry's own dicts sees the write to step["fn"]
ReloadSeenBy(r, idx, fn, desc) ==
    IF r.alias
    THEN [r EXCEPT !.ents = [k \in 1..Len(r.ents) |->
                                IF r.steps[k] = idx
                                THEN [r.ents[k] EXCEPT !.fn = fn, !.description = desc]
                                ELSE r.ents[k]]]
    ELSE r

\* _reload_all 859-868: one iteration of the loop, then its end
ReloadStep ==
    /\ pc["main"] = "reload"
    /\ IF rl.i < Len(rl.steps)
       THEN LET idx == rl.steps[rl.i + 1]
                e   == registry[idx]
                fn  == ReloadedFn(e.fn, load_transform(disk, e.name))
                dsc == ReloadedDesc(e.description, load_transform(disk, e.name), e.name)
            IN /\ registry' = [registry EXCEPT ![idx].fn = fn, ![idx].description = dsc]
               /\ run' = [t \in Threads |-> ReloadSeenBy(run[t], idx, fn, dsc)]
               /\ rl' = [rl EXCEPT !.i = rl.i + 1,
                                   !.failed = ReloadFailures(rl.failed,
                                                  load_transform(disk, e.name), e.name),
                                   !.reloaded = ReloadedCount(rl.reloaded,
                                                  load_transform(disk, e.name))]
               /\ UNCHANGED pc
       ELSE /\ rl' = NoReload
            /\ Goto("main", "idle")
            /\ UNCHANGED << registry, run >>
    /\ UNCHANGED << modeVars, running, dry_run, cntVars, disk, rows, clip, preview,
                    wLast, wActive, wpc, wcur, queue, hkPending, mtmp, nUser, prevPoll,
                    seeded, pollSeed, wRunning, lc, ld, sc, cl, dbl >>

\* _toggle_dry_run 947
ToggleDryRun ==
    /\ CanClick
    /\ dry_run' = ~dry_run
    /\ DropFrame
    /\ lc' = NoLoad
    /\ nUser' = nUser + 1
    /\ UNCHANGED << modeVars, running, cntVars, disk, registry, rows, clip, preview,
                    wLast, wActive, wpc, wcur, queue, hkPending, pc, mtmp, rl,
                    prevPoll, seeded, pollSeed, wRunning, ld, sc, cl, dbl >>

InsertAt(sq, k, x) == SubSeq(sq, 1, k) \o << x >> \o SubSeq(sq, k + 1, Len(sq))
RemoveAt(sq, k) == SubSeq(sq, 1, k - 1) \o SubSeq(sq, k + 1, Len(sq))

\* the user picks another text in the combo of row r: ChainRow.changed -> _on_row_changed
SelectLabel ==
    /\ CanClick
    /\ \E r \in 1..Len(rows) : \E lbl \in Range(_all_labels(registry)) :
          /\ lbl # rows[r]
          /\ rows' = _on_row_changed([rows EXCEPT ![r] = lbl], registry)
          /\ lc' = RowChangeLoad([rows EXCEPT ![r] = lbl], registry)
    /\ DropFrame
    /\ nUser' = nUser + 1
    /\ UNCHANGED << modeVars, running, dry_run, cntVars, disk, registry, clip, preview,
                    wLast, wActive, wpc, wcur, queue, hkPending, pc, mtmp, rl,
                    prevPoll, seeded, pollSeed, wRunning, ld, sc, cl, dbl >>

\* the "+" button of row r: _insert_row_after 614-620
InsertRow ==
    /\ CanClick
    /\ \E r \in 1..Len(rows) :
          /\ rows' = _on_row_changed(InsertAt(rows, r, _make_row("", registry)), registry)
          /\ lc' = RowChangeLoad(InsertAt(rows, r, _make_row("", registry)), registry)
    /\ DropFrame
    /\ nUser' = nUser + 1
    /\ UNCHANGED << modeVars, running, dry_run, cntVars, disk, registry, clip, preview,
                    wLast, wActive, wpc, wcur, queue, hkPending, pc, mtmp, rl,
                    prevPoll, seeded, pollSeed, wRunning, ld, sc, cl, dbl >>

\* the "−" button of row r: _remove_row 622-630 (the only row is never removed)
RemoveRow ==
    /\ CanClick
    /\ Len(rows) > 1
    /\ \E r \in 1..Len(rows) :
          /\ rows' = _on_row_changed(RemoveAt(rows, r), registry)
          /\ lc' = RowChangeLoad(RemoveAt(rows, r), registry)
    /\ DropFrame
    /\ nUser' = nUser + 1
    /\ UNCHANGED << modeVars, running, dry_run, cntVars, disk, registry, clip, preview,
                    wLast, wActive, wpc, wcur, queue, hkPending, pc, mtmp, rl,
                    prevPoll, seeded, pollSeed, wRunning, ld, sc, cl, dbl >>

\* _open_chain_picker 712-800: the dialog offers every chain; the button of a
\* chain with missing steps is disabled; a click on an enabled one calls
\* _load_chain with that chain
PickChain ==
    /\ CanClick
    /\ \E i \in 1..Len(registry) :
          /\ registry[i].is_chain
          /\ MissingSteps(registry, registry[i].steps) = << >>
          /\ rows' = _load_chain(registry[i], rows, registry)
          /\ lc' = LoadReport(registry[i], registry)
    /\ DropFrame
    /\ nUser' = nUser + 1
    /\ UNCHANGED << modeVars, running, dry_run, cntVars, disk, registry, clip, preview,
                    wLast, wActive, wRunning, wpc, wcur, queue, hkPending, pc, mtmp,
                    rl, prevPoll, seeded, pollSeed, ld, sc, cl, dbl >>

\* ------------------------------------------------------------ environment
\* the user copies a text; history: whether the detector was suspended then
UserCopy ==
    /\ nUser < MaxUser
    /\ \E t \in UserTexts \ {clip.text} :
          clip' = Clip(t, IF hasWorker /\ ~wActive THEN "paused" ELSE "user")
    /\ seeded' = NoText
    /\ nUser' = nUser + 1
    /\ UNCHANGED << modeVars, running, dry_run, cntVars, disk, registry, rows, preview,
                    wLast, wActive, wpc, wcur, queue, hkPending, pc, run, mtmp, rl,
                    prevPoll, pollSeed, wRunning, lc, ld, sc, cl, dbl >>

\* closeEvent 1104-1117: the hotkey is removed, the worker is told to stop; the
\* GUI thread waits at most two seconds for the worker thread and handles no
\* further event
CloseEvent ==
    /\ CanClick
    /\ hkReg' = FALSE
    /\ hkPending' = 0
    /\ wRunning' = IF hasWorker THEN FALSE ELSE wRunning
    /\ Goto("main", "closed")
    /\ DropFrame
    /\ lc' = NoLoad
    /\ nUser' = nUser + 1
    /\ UNCHANGED << hotkey, kbAvail, hasWorker, running, dry_run, cntVars, disk,
                    registry, rows, clip, preview, wLast, wActive, wpc, wcur, queue,
                    mtmp, rl, prevPoll, seeded, pollSeed, ld, sc, cl, dbl >>

\* the user edits (or breaks, or repairs) a script file
UserEdit ==
    /\ nUser < MaxUser
    /\ \E nm \in NameSet : \E st \in FileStates(nm) \ {disk[nm]} :
          disk' = [disk EXCEPT ![nm] = st]
    /\ nUser' = nUser + 1
    /\ UNCHANGED << modeVars, running, dry_run, cntVars, registry, rows, clip, preview,
                    wLast, wActive, wpc, wcur, queue, hkPending, pc, run, mtmp, rl,
                    prevPoll, seeded, pollSeed, wRunning, lc, ld, sc, cl, dbl >>

Next ==
    \/ StartupRefresh \/ StartPolling \/ RegisterHotkey
    \/ WReseed \/ WReseedSet \/ WLoop \/ WPoll \/ WCompare \/ WEmit
    \/ DeliverClipChanged \/ PressHotkey \/ OnHotkey
    \/ \E t \in Threads : RunStep(t)
    \/ \E t \in Threads : RunSink(t)
    \/ \E t \in Threads : RunFinish(t)
    \/ Toggle \/ MainReseedPaste \/ MainReseedSet \/ Rescan
    \/ ReloadBegin \/ ReloadStep \/ ToggleDryRun
    \/ SelectLabel \/ InsertRow \/ RemoveRow \/ PickChain
    \/ UserCopy \/ UserEdit \/ CloseEvent

Spec == Init /\ [][Next]_vars

\* the steps of the worker thread, which the operating system keeps scheduling;
\* pyperclip.paste() and time.sleep() return
WorkerStep == WReseed \/ WReseedSet \/ WLoop \/ WPoll \/ WCompare \/ WEmit

FairSpec == Spec /\ WF_vars(WorkerStep)

\* ------------------------------------------------- load_transform alone
\* load_transform(path, get_transform_overrides(cfg, stem)) for one plugin and
\* one [transform:<stem>] section, step by step; the window is not started.
windowVars == << hotkey, kbAvail, hasWorker, hkReg, running, dry_run, transform_count,
                 error_count, disk, registry, rows, clip, preview, wLast, wActive,
                 wRunning, wpc, wcur, queue, hkPending, pc, run, mtmp, rl, nUser,
                 prevPoll, seeded, pollSeed, lc >>

LoadInit ==
    /\ InitWindow
    /\ ~hotkey /\ kbAvail /\ disk = [nm \in NameSet |-> 1] /\ clip = Clip("", "user")
    /\ \E plugin \in Plugins : \E section \in IniSections :
          ld = [NoLd EXCEPT !.stage = "ini", !.plugin = plugin, !.section = section]
    /\ sc = NoScan /\ cl = NoChainLoad /\ dbl = NoDb

\* load_ini, get_transform_overrides
ReadOverrides ==
    /\ ld.stage = "ini"
    /\ ld' = [ld EXCEPT !.stage = "exec",
                        !.overrides = get_transform_overrides(ld.section)]
    /\ UNCHANGED << windowVars, sc, cl, dbl >>

\* 248-252: exec_module defines the plugin's top-level variables
ExecModule ==
    /\ ld.stage = "exec"
    /\ ld' = [ld EXCEPT !.stage = "override", !.ns = ModuleDefaults(ld.plugin), !.k = 1]
    /\ UNCHANGED << windowVars, sc, cl, dbl >>

\* 254-261: one iteration of `for key, value in overrides.items()`
SetOverride ==
    /\ ld.stage = "override"
    /\ ld.k <= Len(ld.overrides)
    /\ ld' = [ld EXCEPT !.k = ld.k + 1,
                        !.ns = setattr(ld.ns, ld.overrides[ld.k].key,
                                       CastValue(ld.overrides[ld.k].value))]
    /\ UNCHANGED << windowVars, sc, cl, dbl >>

\* 262-270: the loop is over; module.transform is returned
ReturnTransform ==
    /\ ld.stage = "override"
    /\ ld.k > Len(ld.overrides)
    /\ ld' = [ld EXCEPT !.stage = "loaded"]
    /\ UNCHANGED << windowVars, sc, cl, dbl >>

\* the returned transform is called: it reads its global from the module
CallTransform ==
    /\ ld.stage = "loaded"
    /\ ld' = [ld EXCEPT !.stage = "called", !.read = ld.ns[ReadsVar(ld.plugin)]]
    /\ UNCHANGED << windowVars, sc, cl, dbl >>

LoadNext == ReadOverrides \/ ExecModule \/ SetOverride \/ ReturnTransform \/ CallTransform

LoadSpec == LoadInit /\ [][LoadNext]_vars

\* ------------------------------------------------ scan_transforms alone
\* scan_transforms(folder, cfg) for one folder listing and one ini file, step
\* by step; the window is not started.
ScanInit ==
    /\ InitWindow
    /\ ~hotkey /\ kbAvail /\ disk = [nm \in NameSet |-> 1] /\ clip = Clip("", "user")
    /\ ld = NoLd /\ cl = NoChainLoad /\ dbl = NoDb
    /\ \E d \in BOOLEAN : \E listing \in DirListings : \E cfg \in IniFiles :
          sc = [NoScan EXCEPT !.stage = "start", !.is_dir = d, !.listing = listing,
                              !.cfg = cfg]

\* 275-276: if not p.is_dir(): return results
ScanNoDir ==
    /\ sc.stage = "start" /\ ~sc.is_dir
    /\ sc' = [sc EXCEPT !.stage = "done"]
    /\ UNCHANGED << windowVars, ld, cl, dbl >>

\* 278: sorted(p.glob("*.py"))
ScanSort ==
    /\ sc.stage = "start" /\ sc.is_dir
    /\ sc' = [sc EXCEPT !.stage = "loop", !.files = sorted(sc.listing), !.k = 1]
    /\ UNCHANGED << windowVars, ld, cl, dbl >>

\* 279-280: a name that starts with "_": continue
ScanSkip ==
    /\ sc.stage = "loop" /\ sc.k <= Len(sc.files)
    /\ StartsWithUnderscore(sc.files[sc.k])
    /\ sc' = [sc EXCEPT !.k = sc.k + 1]
    /\ UNCHANGED << windowVars, ld, cl, dbl >>

\* 281-297: results.append of the script or of the Broken entry
ScanLoad ==
    /\ sc.stage = "loop" /\ sc.k <= Len(sc.files)
    /\ ~StartsWithUnderscore(sc.files[sc.k])
    /\ sc' = [sc EXCEPT !.k = sc.k + 1,
                        !.results = Append(sc.results, ScriptEntry(disk, sc.files[sc.k]))]
    /\ UNCHANGED << windowVars, ld, cl, dbl >>

\* 298-300: the chains are appended; return results
ScanChains ==
    /\ sc.stage = "loop" /\ sc.k > Len(sc.files)
    /\ sc' = [sc EXCEPT !.stage = "done", !.results = sc.results \o get_chains_cfg(sc.cfg)]
    /\ UNCHANGED << windowVars, ld, cl, dbl >>

ScanNext == ScanNoDir \/ ScanSort \/ ScanSkip \/ ScanLoad \/ ScanChains

ScanSpec == ScanInit /\ [][ScanNext]_vars

\* ---------------------------------------------------- _load_chain alone
\* a folder is scanned with an ini file that declares one chain, c, over its
\* loadable scripts; the chain is loaded; the active steps are read.  The window
\* is not started.
ChainInit ==
    /\ InitWindow
    /\ ~hotkey /\ kbAvail /\ disk = [nm \in NameSet |-> 1] /\ clip = Clip("", "user")
    /\ ld = NoLd /\ sc = NoScan /\ dbl = NoDb
    /\ \E folder \in Folders :
          \E decl \in StepLists({f \in DOMAIN folder : folder[f] # 0}) :
              cl = [NoChainLoad EXCEPT !.stage = "scan", !.folder = folder, !.decl = decl]

\* _refresh_transforms 806-833 at startup: the registry, and the first row
ChainScan ==
    /\ cl.stage = "scan"
    /\ LET reg == scan_folder(cl.folder,
                              << [kind |-> "chain", name |-> "c", steps |-> cl.decl] >>)
       IN cl' = [cl EXCEPT !.stage = "load", !.reg = reg, !.rows = RefreshRows(<< >>, reg)]
    /\ UNCHANGED << windowVars, ld, sc, dbl >>

\* _load_chain(entry of chain c), from the picker or from the first row
ChainLoad ==
    /\ cl.stage = "load"
    /\ LET entry == CHOOSE e \in Range(cl.reg) : e.is_chain
       IN cl' = [cl EXCEPT !.stage = "loaded", !.rows = _load_chain(entry, cl.rows, cl.reg)]
    /\ UNCHANGED << windowVars, ld, sc, dbl >>

\* _get_active_steps()
ChainActive ==
    /\ cl.stage = "loaded"
    /\ cl' = [cl EXCEPT !.stage = "active", !.active = _get_active_steps(cl.rows, cl.reg)]
    /\ UNCHANGED << windowVars, ld, sc, dbl >>

ChainNext == ChainScan \/ ChainLoad \/ ChainActive

ChainSpec == ChainInit /\ [][ChainNext]_vars

\* -------------------------------------------------------- DBLogger alone
\* One DBLogger: a caller thread that calls log() and then stop(), and the
\* writer thread.  Inserts succeed, and the writer's steps take less than the
\* three seconds stop() waits in join.  The window is not started.
DbInit ==
    /\ InitWindow
    /\ ~hotkey /\ kbAvail /\ disk = [nm \in NameSet |-> 1] /\ clip = Clip("", "user")
    /\ ld = NoLd /\ sc = NoScan /\ cl = NoChainLoad
    /\ dbl = DbStarted

sideVars == << windowVars, ld, sc, cl >>

\* log 115-122: self._queue.put(entry)
DbLog ==
    /\ dbl.caller = "open"
    /\ Len(dbl.logged) < MaxLog
    /\ \E tag \in LogTags :
          LET entry == [n |-> Len(dbl.logged) + 1, tag |-> tag]
          IN dbl' = [dbl EXCEPT !.queue = Append(dbl.queue, entry),
                                !.logged = Append(dbl.logged, entry)]
    /\ UNCHANGED sideVars

\* stop 169: self._stop_evt.set()
DbStopSet ==
    /\ dbl.caller = "open"
    /\ dbl' = [dbl EXCEPT !.stop_evt = TRUE, !.caller = "stop_put"]
    /\ UNCHANGED sideVars

\* stop 170: self._queue.put(None)
DbStopPut ==
    /\ dbl.caller = "stop_put"
    /\ dbl' = [dbl EXCEPT !.queue = Append(dbl.queue, NoneItem), !.caller = "join"]
    /\ UNCHANGED sideVars

\* stop 171: self._writer.join(timeout=3) returns once the writer thread is over
DbStopJoin ==
    /\ dbl.caller = "join"
    /\ dbl.writer = "over"
    /\ dbl' = [dbl EXCEPT !.caller = "stopped"]
    /\ UNCHANGED sideVars

\* _writer_loop 94: while not self._stop_evt.is_set()
WriterLeaves(stop_evt) == stop_evt

\* 94: the loop test
DbWriterTest ==
    /\ dbl.writer = "test"
    /\ dbl' = [dbl EXCEPT !.writer = IF WriterLeaves(dbl.stop_evt) THEN "close" ELSE "get"]
    /\ UNCHANGED sideVars

\* 96, 107-108: self._queue.get(timeout=0.2): the oldest item, or queue.Empty
\* and the next iteration
DbWriterGet ==
    /\ dbl.writer = "get"
    /\ IF dbl.queue # << >>
       THEN dbl' = [dbl EXCEPT !.item = Head(dbl.queue), !.queue = Tail(dbl.queue),
                               !.writer = "item"]
       ELSE dbl' = [dbl EXCEPT !.writer = "test"]
    /\ UNCHANGED sideVars

\* 97-106: None ends the loop; an entry is inserted and committed
DbWriterItem ==
    /\ dbl.writer = "item"
    /\ IF dbl.item = NoneItem
       THEN dbl' = [dbl EXCEPT !.writer = "close"]
       ELSE dbl' = [dbl EXCEPT !.rows = Append(dbl.rows, dbl.item), !.item = NoneItem,
                               !.writer = "test"]
    /\ UNCHANGED sideVars

\* 111: conn.close(); the thread is over
DbWriterClose ==
    /\ dbl.writer = "close"
    /\ dbl' = [dbl EXCEPT !.writer = "over"]
    /\ UNCHANGED sideVars

DbNext ==
    \/ DbLog \/ DbStopSet \/ DbStopPut \/ DbStopJoin
    \/ DbWriterTest \/ DbWriterGet \/ DbWriterItem \/ DbWriterClose

DbSpec == DbInit /\ [][DbNext]_vars

\* ================================================================ claims
Runs == {run[t] : t \in Threads}

\* C1: the poll loop never emits clip_changed for a text the pipeline itself
\* wrote to the clipboard: no poll is about to emit, and no emitted trigger
\* carries, the pipeline's own output.
C1_NoSelfTrigger ==
    /\ wpc = "w_emit" => wcur.src # "run"
    /\ \A i \in 1..Len(queue) : queue[i].src # "run"

\* C2: exactly one trigger per distinct content change.  A poll emits
\* clip_changed exactly when the text it read is non-empty and differs from the
\* baseline in force at the comparison; it emits once, and makes that text the
\* baseline; so a poll that reads what the previous poll read (no other thread
\* having written the baseline in between) emits nothing; nothing but a poll
\* (not the reseed) emits.
C2_Decision ==
    (wpc = "w_cmp" /\ wpc' # "w_cmp")
        => ((wpc' = "w_emit") <=> (wcur.text # "" /\ wcur.text # wLast))
C2_Emission ==
    (queue' # queue /\ Len(queue') >= Len(queue))
        => (/\ wpc = "w_emit" /\ wpc' = "w_loop"
            /\ queue' = Append(queue, wcur)
            /\ wLast' = wcur.text)
C2_OneTriggerPerChange ==
    /\ [](wpc = "w_emit" => (wcur.text # "" /\ wcur.text # prevPoll))
    /\ [][C2_Decision /\ C2_Emission]_vars

\* C2 witness: polls read X, Y, Y: X and Y were emitted, and the poll that read Y
\* again is at its comparison.
C2_Witness ==
    /\ wpc = "w_cmp" /\ wcur.text = prevPoll /\ wcur.text # ""
    /\ Len(queue) = 2 /\ queue[1].text # queue[2].text /\ queue[2].text = wcur.text

\* C3: while the detector is suspended no run is triggered: no clip_changed is
\* emitted in a state where _active is False.
C3_NoTriggerWhileSuspended ==
    [][(hasWorker /\ ~wActive) => Len(queue') <= Len(queue)]_vars

\* C4: a text put on the clipboard while the detector was suspended is never
\* the input of a pipeline run.
C4_NoStaleTrigger ==
    \A r \in Runs : r.status # "none" => r.src # "paused"

\* C5: at most one _run_chain is in flight at any time.
C5_OneRunInFlight ==
    Cardinality({t \in Threads : InFlight(t)}) <= 1

\* C5 witness: a run is in flight while another trigger is waiting.
C5_Witness ==
    InFlight("main") /\ queue # << >>

\* C6: at most one trigger is ever pending: the clip_changed emissions whose
\* run has not started yet never number more than one.
C6_AtMostOnePending ==
    Len(queue) <= 1

\* C7: every step of a run calls the callable its step had when the run started.
C7_RunUsesStartCallables ==
    \A r \in Runs : \A k \in 1..Len(r.calls) :
        r.calls[k].name = r.ents[k].name /\ r.calls[k].fn = r.fns0[k]

\* the left fold of the first k calls over t, each output coerced to a string
RECURSIVE FoldCalls(_, _, _)
FoldCalls(calls, k, t) ==
    IF k = 0 THEN t
    ELSE Coerce(Apply(calls[k].name, calls[k].fn, FoldCalls(calls, k - 1, t)))

\* C8: a run whose steps all have a callable and do not raise calls the steps in
\* list order, each with the coerced output of the one before (the first with
\* the input), and hands the sink the left fold of the callables it called.
C8_LeftFold ==
    \A t \in Threads :
        LET r == run[t] IN
        /\ \A k \in 1..Len(r.calls) :
              /\ r.calls[k].name = r.ents[k].name
              /\ r.calls[k].arg = FoldCalls(r.calls, k - 1, r.input)
        /\ r.sink # "none" =>
              /\ Len(r.calls) = Len(r.steps)
              /\ r.out = FoldCalls(r.calls, Len(r.steps), r.input)
              /\ r.sink = "preview" => preview = r.out
        /\ (pc[t] = "run_finish" /\ clip.src = "run") => clip.text = r.out

\* C8 witness: a two-step run wrote the coerced non-string result of its second
\* step, computed from the first step's output, to the clipboard.
C8_Witness ==
    \E t \in Threads :
        /\ run[t].sink = "clip" /\ Len(run[t].calls) = 2
        /\ run[t].calls[2].arg # run[t].input
        /\ Apply(run[t].calls[2].name, run[t].calls[2].fn, run[t].calls[2].arg).kind = "int"
        /\ clip = Clip("7", "run")

\* C9: a run that fails at step i stops there: no later step is called, nothing
\* is written to the clipboard or the preview pane, the baseline is not
\* updated, and transform_count is not incremented.
C9_FailureIsolation ==
    \A t \in Threads :
        LET r == run[t] IN
        r.failAt # 0 =>
            /\ pc[t] = "idle"
            /\ r.i = r.failAt - 1
            /\ Len(r.calls) <= r.failAt
            /\ \A j \in 1..Len(r.trace) : r.trace[j].at <= r.failAt
            /\ r.sink = "none" /\ ~r.updLast /\ ~r.counted

\* C9 witness: the second step of a run failed after the first had succeeded.
C9_Witness ==
    \E t \in Threads : run[t].failAt = 2 /\ run[t].i = 1 /\ run[t].cur # run[t].input

\* C10: a failed run reports the failing step's name and position, and its trace
\* has an entry for every step up to the failing one and none for a later step.
C10_FailureNamesStep ==
    \A r \in Runs :
        r.failAt # 0 =>
            /\ \E j \in 1..Len(r.trace) :
                  /\ r.trace[j].tag = "err"
                  /\ r.trace[j].name = r.ents[r.failAt].name
                  /\ r.trace[j].pos = r.failAt
            /\ \A k \in 1..r.failAt : \E j \in 1..Len(r.trace) : r.trace[j].at = k
            /\ \A j \in 1..Len(r.trace) : r.trace[j].at <= r.failAt

\* C11: a run that finds no active step ends at once: it leaves a single
\* pipeline-level warning as its whole trace, calls no callable, writes neither
\* the clipboard nor the preview pane, and the step that starts it leaves
\* transform_count, error_count and the detector baseline unchanged.
C11_Started(t) ==
    IF t = "main" THEN Len(queue') < Len(queue) ELSE hkPending' < hkPending
C11_EmptyRecord(r) ==
    /\ r.trace = << LogEntry("nosteps", "warn", "", 0, 0) >>
    /\ r.calls = << >> /\ r.sink = "none" /\ ~r.updLast /\ ~r.counted
C11_EmptyPipeline ==
    /\ [](\A t \in Threads : run[t].status = "empty" =>
                (pc[t] \notin {"run_step", "run_sink", "run_finish"}
                 /\ C11_EmptyRecord(run[t])))
    /\ [][\A t \in Threads : (C11_Started(t) /\ run'[t].status = "empty") =>
            UNCHANGED << transform_count, error_count, wLast, clip, preview >>]_vars

\* C11 witness: a trigger with a non-empty text found no active step.
C11_Witness ==
    \E t \in Threads : run[t].status = "empty" /\ run[t].input # "" /\ pc[t] = "idle"

\* C12: reseed() never triggers a run.  A reseed step emits no clip_changed and
\* makes the text it read the baseline; and a poll that reads the clipboard
\* after a reseed, the clipboard not having been written since that reseed read
\* it, does not emit the text the reseed recorded.
C12_ReseedStep ==
    \/ wpc \in {"w_reseed", "w_reseed_set"} /\ wpc' # wpc
    \/ pc["main"] \in {"reseed_paste", "reseed_set"} /\ pc'["main"] # pc["main"]
C12_ReseedNeverTriggers ==
    /\ [][C12_ReseedStep => queue' = queue]_vars
    /\ [][(wpc = "w_reseed_set" /\ wpc' # wpc) => wLast' = wcur.text]_vars
    /\ [][(pc["main"] = "reseed_set" /\ pc'["main"] # "reseed_set") => wLast' = mtmp]_vars
    /\ [](wpc = "w_emit" => (pollSeed = NoText \/ wcur.text # pollSeed))

\* C13: the polling detector and the hotkey trigger are mutually exclusive: in
\* no state is there a ClipboardWorker and a registered hotkey handler, and
\* once startup is over exactly the trigger source chosen at startup exists
\* (none when a hotkey was asked for and the keyboard library is missing).
C13_ExclusiveTriggers ==
    /\ ~(hasWorker /\ hkReg)
    /\ (hkReg \/ hkPending > 0 \/ pc["hk"] # "idle") => (queue = << >> /\ wpc = "off")
    /\ pc["main"] \notin {"init_refresh", "init_polling", "init_hotkey"} =>
          /\ hkReg => hotkey
          /\ hasWorker => ~hotkey

\* C13 witness: startup is over with the hotkey registered, a press has been
\* handled, and no poll loop exists.
C13_Witness ==
    /\ hkReg /\ pc["main"] = "idle" /\ wpc = "off" /\ ~hasWorker
    /\ run["hk"].status # "none"

\* C14: after stop() the detector loop terminates.  No iteration begins once
\* _running is False (the loop test then ends run(), so at most the iteration in
\* progress completes), a loop that has ended stays ended, and, the worker
\* thread being scheduled, a stopped loop eventually ends, whether the detector
\* is active or suspended.
C14_StopTerminates ==
    /\ [][(wpc = "w_loop" /\ ~wRunning /\ wpc' # wpc) => wpc' = "done"]_vars
    /\ [][wpc = "done" => wpc' = "done"]_vars
    /\ [](wpc = "done" => ~wRunning)
    /\ (hasWorker /\ ~wRunning) ~> (wpc = "done")

\* C14 witness: the loop has ended after a stop() that came while the detector
\* was suspended.
C14_Witness ==
    wpc = "done" /\ ~wActive /\ pc["main"] = "closed"

\* the declared steps that name (keep = TRUE), or do not name (keep = FALSE), a
\* non-chain entry of the registry, in declaration order
RECURSIVE C15_Filter(_, _, _)
C15_Filter(reg, steps, keep) ==
    IF steps = << >> THEN << >>
    ELSE LET named == \E i \in 1..Len(reg) : reg[i].name = Head(steps) /\ ~reg[i].is_chain
         IN (IF named = keep THEN << Head(steps) >> ELSE << >>)
            \o C15_Filter(reg, Tail(steps), keep)

C15_LabelOf(reg, nm) ==
    reg[CHOOSE i \in 1..Len(reg) : reg[i].name = nm /\ ~reg[i].is_chain].label

\* C15: chain resolution keeps declaration order and reports the rest as
\* missing.  What a _load_chain call resolves is exactly the declared steps
\* that name a non-chain entry, in declaration order, and these become the
\* rows; every other declared step is reported as not found, and is also in
\* the missing list the chain picker shows; so chain c, declared a, x, b,
\* resolves to a, b with x missing.
C15_ChainResolution ==
    lc # NoLoad =>
        LET ch   == CHOOSE e \in Range(registry) : e.is_chain /\ e.name = lc.chain
            res  == C15_Filter(registry, ch.steps, TRUE)
            rest == C15_Filter(registry, ch.steps, FALSE)
        IN /\ lc.labels = [k \in 1..Len(res) |-> C15_LabelOf(registry, res[k])]
           /\ lc.missing = rest
           /\ \A k \in 1..Len(rest) :
                 rest[k] \in Range(MissingSteps(registry, ch.steps))
           /\ lc.labels # << >> => rows = lc.labels
           /\ lc.chain = "c" => (res = <<"a", "b">> /\ lc.missing = <<"x">>)
           /\ lc.chain = "e" => res = <<"b", "a">>

\* C15 witness: chain c, declared a, x, b, has been loaded: two rows, x reported.
C15_Witness ==
    /\ lc.chain = "c" /\ Len(lc.labels) = 2 /\ lc.missing = <<"x">>
    /\ rows = lc.labels

\* ---------------------------------------------------------------- C16
\* C16: a script that failed to load is a Broken entry of the registry (no
\* callable, the load error as its description), and a chain load, from the
\* first row or from the picker, resolves no step to such an entry: none of
\* the labels it put in the rows, and so no active step, is a Broken entry's.
C16_BrokenExcluded ==
    /\ \A i \in 1..Len(registry) :
          (~registry[i].is_chain /\ registry[i].fn = 0) =>
              /\ registry[i].label = BrokenLabel(registry[i].name)
              /\ registry[i].description = LoadError(registry[i].name)
    /\ (lc # NoLoad /\ lc.labels # << >>) =>
          /\ \A k \in 1..Len(lc.labels) :
                \A i \in 1..Len(registry) :
                    registry[i].label = lc.labels[k] => registry[i].fn # 0
          /\ \A i \in Range(_get_active_steps(rows, registry)) : registry[i].fn # 0

\* ---------------------------------------------------------------- C17
\* C17: no entry returned by _get_active_steps is a chain, whatever the rows
\* select, so no step a run holds is a chain; and a chain load never resolves
\* a declared step to a chain: every label it puts in the rows is a script's,
\* and a step that names a chain is reported as not found.
C17_NoChainInPipeline ==
    /\ \A i \in Range(_get_active_steps(rows, registry)) : ~registry[i].is_chain
    /\ \A t \in Threads : \A k \in 1..Len(run[t].ents) : ~run[t].ents[k].is_chain
    /\ lc # NoLoad =>
          /\ \A k \in 1..Len(lc.labels) :
                \A i \in 1..Len(registry) :
                    registry[i].label = lc.labels[k] => ~registry[i].is_chain
          /\ LET ch == CHOOSE e \in Range(registry) : e.is_chain /\ e.name = lc.chain
             IN \A k \in 1..Len(ch.steps) :
                    (\E e \in Range(registry) : e.is_chain /\ e.name = ch.steps[k])
                        => ch.steps[k] \in Range(lc.missing)

\* C17 witness: a row below the first holds a chain's label, and a run has
\* started on the steps these rows select.
C17_Witness ==
    /\ \E r \in 2..Len(rows) :
          \E e \in Range(registry) : e.is_chain /\ e.label = rows[r]
    /\ \E t \in Threads :
          /\ run[t].steps # << >>
          /\ run[t].steps = _get_active_steps(rows, registry)

\* C17 second witness: chain d, whose only step names chain c, was loaded from
\* the first row and resolved nothing.
C17_WitnessNested ==
    /\ lc.chain = "d" /\ lc.labels = << >> /\ lc.missing = <<"c">>

\* ---------------------------------------------------------------- C18
\* C18: once startup is over, whatever rows were inserted, removed or changed,
\* whatever chain was loaded and whatever rescan was made, the rows are not
\* empty and the active step list the next run would read is not empty.
C18_Started ==
    pc["main"] \notin {"init_refresh", "init_polling", "init_hotkey"}

C18_AlwaysOneStep ==
    C18_Started =>
        /\ rows # << >>
        /\ _get_active_steps(rows, registry) # << >>

\* ---------------------------------------------------------------- C19
\* the registry reg holds, for the folder in state d, exactly one non-chain
\* entry per eligible file and none for any other file, in the folder's order:
\* a script with the file's callable, or a Broken entry with no callable and
\* the load error as description
C19_Complete(d, reg) ==
    LET scripts == SelectSeq(reg, LAMBDA e : ~e.is_chain)
    IN /\ \A f \in Range(PyFiles) :
             Cardinality({i \in 1..Len(reg) : ~reg[i].is_chain /\ reg[i].name = f})
                 = IF StartsWithUnderscore(f) THEN 0 ELSE 1
       /\ Len(scripts) = Cardinality({f \in Range(PyFiles) : ~StartsWithUnderscore(f)})
       /\ \A i \in 1..Len(scripts) :
             \A j \in 1..Len(scripts) :
                 (i < j) =>
                     \E m, n \in 1..Len(PyFiles) :
                         m < n /\ PyFiles[m] = scripts[i].name /\ PyFiles[n] = scripts[j].name
       /\ \A i \in 1..Len(scripts) :
             LET e == scripts[i]
             IN IF d[e.name] # 0
                THEN e.fn = d[e.name] /\ e.label = TitleLabel(e.name)
                     /\ e.description = ShortDesc(e.name)
                ELSE e.fn = 0 /\ e.label = BrokenLabel(e.name)
                     /\ e.description = LoadError(e.name)

\* C19: every scan (at startup and on Rescan) completes and leaves a registry
\* with exactly one non-chain entry per eligible file, a script with a callable
\* when the file loads and a Broken entry otherwise, also when no file loads;
\* and no later step drops or duplicates an entry.
C19_ScanKeepsAll ==
    /\ [][(StartupRefresh \/ Rescan) => C19_Complete(disk, registry')]_vars
    /\ [](pc["main"] # "init_refresh" =>
             \A f \in Range(Names) :
                 Cardinality({i \in 1..Len(registry) :
                                ~registry[i].is_chain /\ registry[i].name = f}) = 1)

\* C19 witness: a scan has run while every plugin file fails to load, and the
\* registry holds a Broken entry for each.
C19_Witness ==
    /\ pc["main"] # "init_refresh"
    /\ \A f \in Range(Names) : disk[f] = 0
    /\ C19_Complete(disk, registry)
    /\ \A f \in Range(Names) :
          \E i \in 1..Len(registry) :
              registry[i].name = f /\ registry[i].fn = 0 /\ ~registry[i].is_chain

\* ---------------------------------------------------------------- C20
\* C20: when the plugin's section of the ini file has an entry for the variable
\* its transform reads (the variable's name in any letter case, as in
\* `bookmark = bk2` for BOOKMARK and `STYLE = banner` for STYLE), then after
\* load_transform the transform reads the configured, coerced value, not the
\* plugin's default.
C20_OverrideReplaces ==
    ld.stage = "called" =>
        \A i \in 1..Len(ld.section) :
            str_lower(ld.section[i].key) = str_lower(ReadsVar(ld.plugin))
                => ld.read = CastValue(ld.section[i].value)

\* ---------------------------------------------------------------- C21
\* the values the claim names, written out: "7" is the integer 7, "7.5" the
\* float 7.5 (75 with one digit after the point), every other value of the
\* model ("seven", "true", "bk2", "banner") the string itself
C21_Expected(raw) ==
    CASE raw = <<"7">> -> [ty |-> "int", s |-> << >>, n |-> 7, d |-> 0]
      [] raw = <<"7", ".", "5">> -> [ty |-> "float", s |-> << >>, n |-> 75, d |-> 1]
      [] OTHER -> [ty |-> "str", s |-> raw, n |-> 0, d |-> 0]

C21_WitnessStr ==
    /\ ld.stage = "loaded"
    /\ Len(ld.overrides) = 2
    /\ ld.overrides[1].value = <<"s", "e", "v", "e", "n">>
    /\ ld.overrides[2].value = <<"t", "r", "u", "e">>
    /\ ld.ns[ld.overrides[1].key] = StrV(ld.overrides[1].value)
    /\ ld.ns[ld.overrides[2].key] = StrV(ld.overrides[2].value)

\* ---------------------------------------------------------------- C22
\* the names of the entries of reg, in order
C22_NamesOf(reg) == [i \in 1..Len(reg) |-> reg[i].name]

\* C22: a scan of a folder lists the non-chain entries in ascending file name
\* order (a before b), then every chain in the order of the ini file's
\* sections, and has no entry for the file whose name starts with an
\* underscore, whatever order the file system lists the folder in; for the
\* window's ini file the result is the registry the window builds.
C22_RegistryOrder ==
    (sc.stage = "done" /\ sc.is_dir) =>
          LET scripts == SelectSeq(sc.results, LAMBDA e : ~e.is_chain)
              chains  == SelectSeq(sc.results, LAMBDA e : e.is_chain)
              decl    == SelectSeq(sc.cfg, LAMBDA x : x.kind = "chain")
          IN /\ sc.results = scripts \o chains
             /\ C22_NamesOf(scripts) = <<"a", "b">>
             /\ C22_NamesOf(chains) = C22_NamesOf(decl)
             /\ Len(chains) = Len(IniChains)
             /\ \A i \in 1..Len(sc.results) : sc.results[i].name # "_h"
             /\ sc.cfg = [i \in 1..Len(IniChains) |-> ChainSection(i)]
                          \o << TransformSection("a") >>
                    => sc.results = scan_transforms(disk)

\* C22 witness: a scan is over of a folder listed as b, _h, a with an ini file
\* that declares e, then d, then the section of a transform, then c.
C22_Witness ==
    /\ sc.stage = "done" /\ sc.is_dir
    /\ sc.listing = <<"b", "_h", "a">>
    /\ C22_NamesOf(sc.cfg) = <<"e", "d", "a", "c">>
    /\ C22_NamesOf(sc.results) = <<"a", "b", "e", "d", "c">>

\* ---------------------------------------------------------------- C23
\* C23: a poll that read the empty string goes back to the loop: it emits
\* nothing and leaves _last as it was; a hotkey callback that finds the
\* clipboard empty starts no run and counts nothing; so no queued trigger and
\* no run has the empty string as its input.
C23_EmptyNeverTriggers ==
    /\ [][(wpc = "w_cmp" /\ wcur.text = "" /\ wpc' # wpc) =>
             (wpc' = "w_loop" /\ wLast' = wLast /\ queue' = queue)]_vars
    /\ [][(OnHotkey /\ clip.text = "") =>
             (pc' = pc /\ run'["hk"] = NoRun /\ transform_count' = transform_count
              /\ error_count' = error_count /\ clip' = clip)]_vars
    /\ [](\A i \in 1..Len(queue) : queue[i].text # "")
    /\ [](\A t \in Threads : run[t].status # "none" => run[t].input # "")

\* C23 witness: the last completed poll read the empty string while the
\* baseline was the text "p", and the baseline is still "p".
C23_Witness ==
    /\ wpc = "w_loop" /\ prevPoll = "" /\ wLast = "p" /\ clip.text = ""

\* ---------------------------------------------------------------- C24
\* C24: when a run whose steps all succeeded reaches the sink in dry-run mode,
\* its result becomes the preview pane's content, the clipboard and the
\* detector's baseline stay as they are and the run ends there; with dry run
\* off the result is written to the clipboard (unless the write itself fails)
\* and the preview pane stays as it is, also when the baseline is then updated.
C24_DrySinkStep(t) ==
    (RunSink(t) /\ dry_run) =>
        /\ preview' = run[t].cur
        /\ clip' = clip /\ wLast' = wLast
        /\ pc'[t] = "idle" /\ run'[t].sink = "preview"

C24_ClipSinkStep(t) ==
    (RunSink(t) /\ ~dry_run) =>
        /\ preview' = preview
        /\ \/ clip' = Clip(run[t].cur, "run") /\ run'[t].sink = "clip"
           \/ clip' = clip /\ run'[t].status = "crashed"

C24_FinishStep(t) ==
    RunFinish(t) => (run[t].sink = "clip" /\ preview' = preview /\ clip' = clip)

C24_DryRunSink ==
    /\ [][\A t \in Threads : C24_DrySinkStep(t)]_vars
    /\ [][\A t \in Threads : C24_ClipSinkStep(t)]_vars
    /\ [][\A t \in Threads : C24_FinishStep(t)]_vars
    /\ [](\A t \in Threads :
            run[t].status = "done" =>
                /\ run[t].sink \in {"preview", "clip"}
                /\ run[t].sink = "preview" => ~run[t].updLast)

\* C24 witness: in polling mode a run has ended in dry-run mode: its result is
\* in the preview pane, the clipboard still holds what the user copied, and the
\* run did not touch the baseline.
C24_Witness ==
    /\ hasWorker /\ dry_run
    /\ run["main"].status = "done" /\ run["main"].sink = "preview"
    /\ preview = run["main"].out /\ run["main"].out # run["main"].input
    /\ clip.src = "user" /\ clip.text = run["main"].input
    /\ ~run["main"].updLast /\ wLast = run["main"].input

\* ---------------------------------------------------------------- C25
\* C25: the step that ends a run that had at least one step adds exactly 1 to
\* exactly one of transform_count and error_count, and no other step changes
\* either counter; so the two counters together count the runs that had at
\* least one step.
C25_EndsCounted(t) ==
    (InFlight(t) /\ pc'[t] = "idle") =>
        \/ transform_count' = transform_count + 1 /\ error_count' = error_count
        \/ error_count' = error_count + 1 /\ transform_count' = transform_count

C25_RunAccounting ==
    /\ [][\A t \in Threads : C25_EndsCounted(t)]_vars
    /\ [][(transform_count' # transform_count \/ error_count' # error_count) =>
             \E t \in Threads : InFlight(t) /\ pc'[t] = "idle"]_vars

\* ---------------------------------------------------------------- C26
\* C26: once __init__ is over and until the window is closed, whatever --hotkey
\* and the keyboard library's availability were, the polling worker exists or a
\* hotkey handler is registered.
C26_SomeTriggerSource ==
    pc["main"] \notin {"init_refresh", "init_polling", "init_hotkey", "closed"}
        => (hasWorker \/ hkReg)

\* ---------------------------------------------------------------- C27
\* C27: while the application is paused (running is False), a hotkey press
\* that is handled starts no pipeline run: no step is called for it, and
\* neither the clipboard nor a counter changes for it.
C27_PauseCoversHotkey ==
    [][(OnHotkey /\ ~running) =>
          (pc'["hk"] = "idle" /\ run'["hk"].status = "none")]_vars

\* ---------------------------------------------------------------- C28
\* C28: after a chain whose declared steps all name loadable scripts has been
\* loaded, the names of the entries _get_active_steps returns are the declared
\* step names, in declaration order, for every folder, also one in which two
\* scripts have the same label.
C28_ActiveIsDeclaration ==
    cl.stage = "active" =>
        [k \in 1..Len(cl.active) |-> cl.reg[cl.active[k]].name] = cl.decl

\* ---------------------------------------------------------------- C29
\* C29: an iteration of _reload_all whose file cannot be loaded leaves the
\* step's entry (callable and description) as it was, logs the failure for
\* that step and goes on to the next step; an iteration whose file loads
\* installs the new callable and counts it; no iteration touches another
\* entry; and the loop ends only after the last active step.
C29_Iteration ==
    (pc["main"] = "reload" /\ rl.i < Len(rl.steps) /\ rl' # rl) =>
        LET idx == rl.steps[rl.i + 1]
            e   == registry[idx]
        IN /\ rl'.i = rl.i + 1 /\ pc'["main"] = "reload"
           /\ \A j \in 1..Len(registry) : j # idx => registry'[j] = registry[j]
           /\ IF disk[e.name] = 0
              THEN /\ registry'[idx] = e
                   /\ rl'.failed = Append(rl.failed, e.name)
                   /\ rl'.reloaded = rl.reloaded
              ELSE /\ registry'[idx].fn = disk[e.name]
                   /\ rl'.failed = rl.failed
                   /\ rl'.reloaded = rl.reloaded + 1

C29_FailedReloadKeepsStep ==
    /\ [][C29_Iteration]_vars
    /\ [][(pc["main"] = "reload" /\ pc'["main"] # "reload") => rl.i = Len(rl.steps)]_vars

\* C29 witness: a reload of two active steps is at its end: the first step's
\* file no longer loads, its entry still has the callable it had, the failure
\* was logged for it, and the second step was reloaded.
C29_Witness ==
    /\ pc["main"] = "reload" /\ Len(rl.steps) = 2 /\ rl.i = 2
    /\ disk[registry[rl.steps[1]].name] = 0
    /\ registry[rl.steps[1]].fn # 0
    /\ registry[rl.steps[1]].description = ShortDesc(registry[rl.steps[1]].name)
    /\ rl.failed = << registry[rl.steps[1]].name >>
    /\ rl.reloaded = 1

\* ---------------------------------------------------------------- C30
\* C30: the rows of log_entries are at every moment the first entries passed
\* to log(), each once and in the order of the calls; and when stop() has
\* returned, every entry passed to log() before it has been inserted.
C30_NothingLostOrReordered ==
    /\ Len(dbl.rows) <= Len(dbl.logged)
    /\ dbl.rows = SubSeq(dbl.logged, 1, Len(dbl.rows))
    /\ dbl.caller = "stopped" => dbl.rows = dbl.logged

====
